---- MODULE Spec2Model ----
(***************************************************************************)
(* Model of the stringify crate: Style / Styles (src/src/styles.rs), the   *)
(* role-table renderer Stringify2 (src/src/stringify.rs), the indentation  *)
(* primitive of the older Stringify trait (src/src/lib.rs) and the error   *)
(* layer (src/src/error.rs).                                               *)
(*                                                                         *)
(* Text is modelled as a sequence of one-character strings, so that the    *)
(* bytes a renderer appends can be compared with a literal output.         *)
(***************************************************************************)
EXTENDS Integers, Sequences, FiniteSets, TLC

VARIABLES pc, op, inp, out

vars == <<pc, op, inp, out>>

----------------------------------------------------------------------------
(* Bounds of the model                                                     *)

\* largest indent_level a caller-supplied Style carries
MaxLevel == 1
\* largest number of items / entries of a top-level container
MaxLen == 2
\* deepest nesting of Vec<Vec<..<usize>..>>
MaxDepth == 2
\* number of capacities tried for a fixed-size sink (0, 4, 8, ...)
MaxRoomSteps == 3
\* width of usize in bits (the model keeps the wrap-around, on a narrow word)
UsizeBits == 4

UsizeModulus == 2 ^ UsizeBits

----------------------------------------------------------------------------
(* Text literals                                                           *)

NL == <<"\n">>
INDENT == <<" ", " ", " ", " ">>
TabUnit == <<"\t">>
VecEmpty == <<"V", "e", "c", " ", "[", "]">>
VecOpen == <<"V", "e", "c", " ", "[">>
VecClose == <<"]">>
HashMapEmpty == <<"H", "a", "s", "h", "M", "a", "p", " ", "{", "}">>
HashMapOpen == <<"H", "a", "s", "h", "M", "a", "p", " ", "{">>
BTreeMapEmpty == <<"B", "T", "r", "e", "e", "M", "a", "p", " ", "{", "}">>
BTreeMapOpen == <<"B", "T", "r", "e", "e", "M", "a", "p", " ", "{">>
MapClose == <<"}">>
KeyValueSep == <<" ", ":", " ">>
Comma == <<",">>
Digits == <<"0", "1", "2", "3", "4", "5", "6", "7", "8", "9">>

----------------------------------------------------------------------------
(* Newline and Style                                                       *)

Newline == {"Add", "Omit"}

Style(newline, indent_level, indent) ==
    [newline |-> newline, indent_level |-> indent_level, indent |-> indent]

\* Style::standard
Style_standard(newline, indent_level) == Style(newline, indent_level, INDENT)

\* impl Default for Style
Style_default == Style("Omit", 0, INDENT)

\* impl ops::Add<usize> for Style, with the addend dropped
Style_add_usize_dropped(self, rhs) == self

\* impl ops::Add<usize> for Style
Style_add_usize(self, rhs) ==
    Style(self.newline, (self.indent_level + rhs) % UsizeModulus, self.indent)

\* The outcome of a subtraction: a Style, or the panic of an overflow check.
Returned(style) == [panicked |-> FALSE, style |-> style]
Panicked == [panicked |-> TRUE, style |-> Style("Omit", 0, <<>>)]

\* usize subtraction `a - b`: a build with overflow checks panics when
\* b > a, a build without them wraps modulo 2^w.
Builds == {"overflow-checks", "wrapping"}

usize_sub(a, b, build) ==
    IF b > a /\ build = "overflow-checks"
    THEN [panicked |-> TRUE, value |-> 0]
    ELSE [panicked |-> FALSE, value |-> (a - b + UsizeModulus) % UsizeModulus]

\* impl ops::Sub<usize> for Style
Style_sub_usize(self, rhs, build) ==
    LET d == usize_sub(self.indent_level, rhs, build)
    IN  IF d.panicked THEN Panicked
        ELSE Returned(Style(self.newline, d.value, self.indent))

\* impl ops::Sub<Style> for Style
Style_sub_Style(self, rhs, build) ==
    LET d == usize_sub(self.indent_level, rhs.indent_level, build)
    IN  IF d.panicked THEN Panicked
        ELSE Returned(Style(self.newline, d.value, self.indent))

----------------------------------------------------------------------------
(* StringifyError and Styles                                               *)

Ok == [tag |-> "Ok", name |-> ""]
StyleNotFound(name) == [tag |-> "StyleNotFound", name |-> name]
IoError == [tag |-> "IoError", name |-> ""]

\* impl From<io::Error> for StringifyError
From_io_Error == IoError

\* The value a failed lookup carries in place of a Style: none.
NoStyle == Style("none", 0, <<>>)

\* A Styles value is a function from the role names it binds to Styles.
\* styles! { } : the table that binds nothing.
EmptyStyles == [r \in {} |-> NoStyle]

\* styles! { key => value }, carrying "start" and "end" along for the child
Styles1_with_start_end(key, value) == [r \in {key, "start", "end"} |-> value]

\* styles! { key => value }
Styles1(key, value) == [r \in {key} |-> value]

\* Styles::get, answering a default Style for an absent role
Styles_get_defaulting(self, name) ==
    IF name \in DOMAIN self
    THEN [res |-> Ok, style |-> self[name]]
    ELSE [res |-> Ok, style |-> Style_default]

\* Styles::get
Styles_get(self, name) ==
    IF name \in DOMAIN self
    THEN [res |-> Ok, style |-> self[name]]
    ELSE [res |-> StyleNotFound(name), style |-> NoStyle]

----------------------------------------------------------------------------
(* The output sink and the state one render call threads through           *)
(*                                                                         *)
(* A sink is a growable Vec<u8> / String (every write is accepted) or a    *)
(* fixed-size byte slice: write_all copies what fits and fails once the    *)
(* slice is full.  A render state rs carries the sink and, as history      *)
(* variables, the role lookups made, the nested render calls made, the     *)
(* errors raised and the sink's content at the moment of a failure.        *)
(* Every step is skipped once rs.res is an error: the `?` after each call  *)
(* returns from the enclosing function.                                    *)

NewSink(prior, sink, room) ==
    [buf |-> prior, sink |-> sink, room |-> room, res |-> Ok,
     lookups |-> <<>>, calls |-> <<>>, raised |-> <<>>, failbuf |-> <<>>]

\* `?` on a StringifyResult, re-tagging the error on the way up
Try_retagging(res) ==
    IF res.tag = "Ok" THEN res ELSE StyleNotFound("start")

\* `?` on a StringifyResult inside a function returning StringifyResult:
\* From<StringifyError> for StringifyError is the identity.
Try(res) == res

Raise(rs, err, buf) ==
    [rs EXCEPT !.buf = buf, !.res = err, !.raised = Append(@, err), !.failbuf = buf]

\* buf.write_all(s)?
write_all(rs, s) ==
    IF rs.res # Ok THEN rs
    ELSE IF rs.sink = "Vec" THEN [rs EXCEPT !.buf = @ \o s]
    ELSE IF Len(s) <= rs.room
         THEN [rs EXCEPT !.buf = @ \o s, !.room = @ - Len(s)]
         ELSE [Raise(rs, From_io_Error, rs.buf \o SubSeq(s, 1, rs.room))
                  EXCEPT !.room = 0]

\* styles.get(name)?
Lookup(rs, styles, name) ==
    IF rs.res # Ok THEN rs
    ELSE LET g == Styles_get(styles, name)
             r == [rs EXCEPT !.lookups = Append(@, name)]
         IN  IF g.res = Ok THEN r
             ELSE [Raise(r, g.res, r.buf) EXCEPT !.res = Try(@)]

RECURSIVE indent_loop(_, _, _)
\* for _ in 0 .. style.indent_level { buf.write_all(style.indent)?; }
indent_loop(rs, style, k) ==
    IF k = 0 THEN rs
    ELSE indent_loop(write_all(rs, style.indent), style, k - 1)

\* Stringify2::indent, writing the line break whatever the policy says
Stringify2_indent_always_newline(rs, style) ==
    indent_loop(write_all(rs, NL), style, style.indent_level)

\* Stringify2::indent
Stringify2_indent(rs, style) ==
    LET r1 == IF style.newline = "Add" THEN write_all(rs, NL) ELSE rs
    IN  indent_loop(r1, style, style.indent_level)

RECURSIVE push_loop(_, _, _)
push_loop(buffer, style, k) ==
    IF k = 0 THEN buffer
    ELSE push_loop(buffer \o style.indent, style, k - 1)

\* Stringify::indent (the older trait, on a String buffer)
Stringify_indent(buffer, style) ==
    LET b1 == IF style.newline = "Add" THEN buffer \o NL ELSE buffer
    IN  push_loop(b1, style, style.indent_level)

----------------------------------------------------------------------------
(* Values                                                                  *)

Leaf(n) == [k |-> "usize", n |-> n, items |-> <<>>]
Vec(items) == [k |-> "Vec", n |-> 0, items |-> items]
Entry(key, value) == [k |-> "entry", n |-> 0, items |-> <<key, value>>]
BTreeMap(entries) == [k |-> "BTreeMap", n |-> 0, items |-> entries]
HashMap(entries) == [k |-> "HashMap", n |-> 0, items |-> entries]

RECURSIVE Decimal(_)
\* format!("{}", n) of an unsigned integer
Decimal(n) ==
    IF n < 10 THEN <<Digits[n + 1]>>
    ELSE Decimal(n \div 10) \o <<Digits[(n % 10) + 1]>>

----------------------------------------------------------------------------
(* The role-table renderer                                                 *)

RECURSIVE stringify(_, _, _)
RECURSIVE Vec_items(_, _, _, _, _)
RECURSIVE HashMap_entries(_, _, _, _)
RECURSIVE BTreeMap_entries(_, _, _, _)

\* A leaf writes its decimal text and resolves no role.
usize_stringify(self, styles, rs) == write_all(rs, Decimal(self.n))

\* for item in self.iter() { ... }   (impl Stringify2 for Vec<T>)
Vec_items(items, i, styles, end, rs) ==
    IF i > Len(items) THEN rs
    ELSE LET r1 == Stringify2_indent(rs, Style_add_usize(end, 1))
             r2 == stringify(items[i], styles, r1)
             r3 == write_all([r2 EXCEPT !.res = Try(@)], Comma)
         IN  Vec_items(items, i + 1, styles, end, r3)

\* impl Stringify2 for Vec<T>, indenting before the emptiness test as the
\* older trait's Vec renderer does
Vec_stringify_indent_first(self, styles, rs) ==
    LET r1 == Lookup(rs, styles, "end")
        end == Styles_get(styles, "end").style
        r2 == Lookup(r1, styles, "start")
        r3 == Stringify2_indent(r2, Styles_get(styles, "start").style)
    IN  IF self.items = <<>> THEN write_all(r3, VecEmpty)
        ELSE LET r4 == write_all(r3, VecOpen)
                 r5 == Vec_items(self.items, 1, styles, end, r4)
                 r6 == Stringify2_indent(r5, end)
             IN  write_all(r6, VecClose)

\* impl Stringify2 for Vec<T>
Vec_stringify(self, styles, rs) ==
    IF self.items = <<>> THEN write_all(rs, VecEmpty)
    ELSE LET r1 == Lookup(rs, styles, "end")
             end == Styles_get(styles, "end").style
             r2 == Lookup(r1, styles, "start")
             r3 == Stringify2_indent(r2, Styles_get(styles, "start").style)
             r4 == write_all(r3, VecOpen)
             r5 == Vec_items(self.items, 1, styles, end, r4)
             r6 == Stringify2_indent(r5, end)
         IN  write_all(r6, VecClose)

\* for (key, value) in self.iter() { ... }   (impl Stringify2 for HashMap<K, V>)
HashMap_entries(entries, i, start, rs) ==
    IF i > Len(entries) THEN rs
    ELSE LET child == Style_standard("Add", (start.indent_level + 1) % UsizeModulus)
             r1 == stringify(entries[i].items[1], Styles1("key", child), rs)
             r2 == write_all([r1 EXCEPT !.res = Try(@)], KeyValueSep)
             r3 == stringify(entries[i].items[2], Styles1("value", child), r2)
             r4 == write_all([r3 EXCEPT !.res = Try(@)], Comma)
         IN  HashMap_entries(entries, i + 1, start, r4)

\* impl Stringify2 for HashMap<K, V>
HashMap_stringify(self, styles, rs) ==
    IF self.items = <<>> THEN write_all(rs, HashMapEmpty)
    ELSE LET r1 == Lookup(rs, styles, "start")
             start == Styles_get(styles, "start").style
             r2 == Stringify2_indent(r1, start)
             r3 == write_all(r2, HashMapOpen)
             r4 == HashMap_entries(self.items, 1, start, r3)
             r5 == Lookup(r4, styles, "end")
             end == Styles_get(styles, "end").style
             r6 == Stringify2_indent(
                       r5, Style_standard("Add", (end.indent_level + 1) % UsizeModulus))
         IN  write_all(r6, MapClose)

\* for (key, value) in self.iter() { ... }   (impl Stringify2 for BTreeMap<K, V>)
BTreeMap_entries(entries, i, start, rs) ==
    IF i > Len(entries) THEN rs
    ELSE LET child == Style_standard("Add", (start.indent_level + 1) % UsizeModulus)
             r1 == stringify(entries[i].items[1], Styles1("key", child), rs)
             r2 == write_all([r1 EXCEPT !.res = Try(@)], KeyValueSep)
             r3 == stringify(entries[i].items[2], Styles1("value", child), r2)
             r4 == write_all([r3 EXCEPT !.res = Try(@)], Comma)
         IN  BTreeMap_entries(entries, i + 1, start, r4)

\* impl Stringify2 for BTreeMap<K, V>, closing at the end style's own level
BTreeMap_stringify_shallow_close(self, styles, rs) ==
    IF self.items = <<>> THEN write_all(rs, BTreeMapEmpty)
    ELSE LET r1 == Lookup(rs, styles, "start")
             start == Styles_get(styles, "start").style
             r2 == Stringify2_indent(r1, start)
             r3 == write_all(r2, BTreeMapOpen)
             r4 == BTreeMap_entries(self.items, 1, start, r3)
             r5 == Lookup(r4, styles, "end")
             end == Styles_get(styles, "end").style
             r6 == Stringify2_indent(r5, Style_standard("Add", end.indent_level))
         IN  write_all(r6, MapClose)

\* impl Stringify2 for BTreeMap<K, V>
BTreeMap_stringify(self, styles, rs) ==
    IF self.items = <<>> THEN write_all(rs, BTreeMapEmpty)
    ELSE LET r1 == Lookup(rs, styles, "start")
             start == Styles_get(styles, "start").style
             r2 == Stringify2_indent(r1, start)
             r3 == write_all(r2, BTreeMapOpen)
             r4 == BTreeMap_entries(self.items, 1, start, r3)
             r5 == Lookup(r4, styles, "end")
             end == Styles_get(styles, "end").style
             r6 == Stringify2_indent(
                       r5, Style_standard("Add", (end.indent_level + 1) % UsizeModulus))
         IN  write_all(r6, MapClose)

\* Stringify2::stringify, dispatched on the type of self
stringify(self, styles, rs) ==
    IF rs.res # Ok THEN rs
    ELSE LET r0 == [rs EXCEPT !.calls = Append(@, [value |-> self, styles |-> styles])]
         IN  CASE self.k = "usize" -> usize_stringify(self, styles, r0)
               [] self.k = "Vec" -> Vec_stringify(self, styles, r0)
               [] self.k = "HashMap" -> HashMap_stringify(self, styles, r0)
               [] self.k = "BTreeMap" -> BTreeMap_stringify(self, styles, r0)

\* Stringify2::stringify_new
stringify_new(self, styles) == stringify(self, styles, NewSink(<<>>, "Vec", 0))

\* Stringify2::stringify_primitive, rendering with a default start / end table
stringify_primitive_defaulting(self, rs) ==
    stringify(self, [r \in {"start", "end"} |-> Style_default], rs)

\* Stringify2::stringify_primitive
stringify_primitive(self, rs) == stringify(self, EmptyStyles, rs)

\* Stringify2::stringify_primitive_new
stringify_primitive_new(self) == stringify_primitive(self, NewSink(<<>>, "Vec", 0))

----------------------------------------------------------------------------
(* Inputs                                                                  *)

Leaves == {1, 2, 10}
Roles == {"start", "end", "key", "value", "name"}
\* names a caller may ask for: the roles, and near misses of them
QueryNames == Roles \cup {"Start", "en", ""}

\* Styles a caller supplies
StyleSet ==
    {Style(nl, l, INDENT) : nl \in Newline, l \in 0 .. MaxLevel}
        \cup {Style("Add", MaxLevel, TabUnit)}

\* All tables over the given roles and styles
TablesOver(roles, styleSet) ==
    UNION {[d -> styleSet] : d \in SUBSET roles}

\* Tables handed to a render call: any binding of "start" and "end", and
\* tables that bind every role to one style.
RenderTables ==
    TablesOver({"start", "end"}, StyleSet)
        \cup {[r \in Roles |-> s] : s \in StyleSet}

SmallTables ==
    TablesOver({"start", "end"}, {Style_default, Style("Add", MaxLevel, INDENT)})

GetTables == TablesOver(Roles, {Style_default, Style("Add", MaxLevel, TabUnit)})

Priors == {<<>>, <<"#">>}
Rooms == {4 * i : i \in 0 .. MaxRoomSteps}

\* Types: the values of a container all have one type.
TUsize == [k |-> "usize", args |-> <<>>]
TVec(t) == [k |-> "Vec", args |-> <<t>>]
TBTreeMap(kt, vt) == [k |-> "BTreeMap", args |-> <<kt, vt>>]
THashMap(kt, vt) == [k |-> "HashMap", args |-> <<kt, vt>>]

RECURSIVE VecOf(_)
VecOf(d) == IF d = 0 THEN TUsize ELSE TVec(VecOf(d - 1))

KeyTypes == {TUsize, TVec(TUsize), TBTreeMap(TUsize, TUsize)}
ValueTypes == KeyTypes \cup {THashMap(TUsize, TUsize)}

Types ==
    {VecOf(d) : d \in 0 .. MaxDepth}
        \cup {TBTreeMap(kt, vt) : kt \in KeyTypes, vt \in ValueTypes}
        \cup {THashMap(kt, vt) : kt \in KeyTypes, vt \in ValueTypes}
        \cup {TVec(TBTreeMap(TUsize, TUsize)), TVec(THashMap(TUsize, TUsize))}

SeqsUpTo(S, n) == UNION {[1 .. m -> S] : m \in 0 .. n}

RECURSIVE ValuesOf(_, _)
\* The values of type t at nesting level lvl: a top-level container has up
\* to MaxLen items, a nested one at most one; a map whose keys are not
\* integers has at most one entry.  The entries of a BTreeMap are listed in
\* ascending key order, those of a HashMap in any order (its iteration
\* order), with distinct keys.
ValuesOf(t, lvl) ==
    LET len == IF lvl = 0 THEN MaxLen ELSE 1
    IN  CASE t.k = "usize" ->
               {Leaf(n) : n \in IF lvl <= 1 THEN Leaves ELSE {1}}
          [] t.k = "Vec" ->
               {Vec(s) : s \in SeqsUpTo(ValuesOf(t.args[1], lvl + 1), len)}
          [] t.k \in {"BTreeMap", "HashMap"} ->
               LET K == ValuesOf(t.args[1], lvl + 1)
                   V == ValuesOf(t.args[2], lvl + 1)
                   E == {Entry(key, value) : key \in K, value \in V}
                   klen == IF t.args[1].k = "usize" THEN len ELSE 1
                   sorted(s) ==
                       \A i, j \in 1 .. Len(s) :
                           i < j => s[i].items[1].n < s[j].items[1].n
                   distinct(s) ==
                       \A i, j \in 1 .. Len(s) :
                           i < j => s[i].items[1] # s[j].items[1]
               IN  IF t.k = "BTreeMap"
                   THEN {BTreeMap(s) : s \in {x \in SeqsUpTo(E, klen) : sorted(x)}}
                   ELSE {HashMap(s) : s \in {x \in SeqsUpTo(E, klen) : distinct(x)}}

Values == UNION {ValuesOf(t, 0) : t \in Types}

----------------------------------------------------------------------------
(* The state machine: one operation of the library is applied to inputs    *)
(* drawn from the sets above, and its inputs and outcome are recorded.     *)

NoRun == NewSink(<<>>, "Vec", 0)
NoGet == [res |-> Ok, style |-> NoStyle]

Inp(value, styles, style, name, rhs, build, prior, sink, room) ==
    [value |-> value, styles |-> styles, style |-> style, name |-> name,
     rhs |-> rhs, build |-> build, prior |-> prior, sink |-> sink, room |-> room]

Out(rs, got, diff, buffer) ==
    [rs |-> rs, got |-> got, diff |-> diff, buffer |-> buffer]

NoInp == Inp(Leaf(0), EmptyStyles, NoStyle, "", 0, "", <<>>, "Vec", 0)
NoOut == Out(NoRun, NoGet, Panicked, <<>>)

Init ==
    /\ pc = "idle"
    /\ op = "none"
    /\ inp = NoInp
    /\ out = NoOut

Done(name, i, o) ==
    /\ pc' = "done"
    /\ op' = name
    /\ inp' = i
    /\ out' = o

\* styles.get(name)
DoGet ==
    /\ pc = "idle"
    /\ \E styles \in GetTables, name \in QueryNames :
           Done("get",
                [NoInp EXCEPT !.styles = styles, !.name = name],
                [NoOut EXCEPT !.got = Styles_get(styles, name)])

\* Stringify2::indent(buf, style)
DoIndent2 ==
    /\ pc = "idle"
    /\ \E style \in StyleSet, prior \in Priors, sink \in {"Vec", "slice"}, room \in Rooms :
           /\ sink = "Vec" => room = 0
           /\ Done("indent2",
                   [NoInp EXCEPT !.style = style, !.prior = prior,
                                 !.sink = sink, !.room = room],
                   [NoOut EXCEPT !.rs = Stringify2_indent(NewSink(prior, sink, room), style)])

\* Stringify::indent(style, buffer)
DoIndent ==
    /\ pc = "idle"
    /\ \E style \in StyleSet, prior \in Priors :
           Done("indent",
                [NoInp EXCEPT !.style = style, !.prior = prior],
                [NoOut EXCEPT !.buffer = Stringify_indent(prior, style)])

\* style - n
DoSubUsize ==
    /\ pc = "idle"
    /\ \E style \in StyleSet, rhs \in 0 .. MaxLevel + 1, build \in Builds :
           Done("sub_usize",
                [NoInp EXCEPT !.style = style, !.rhs = rhs, !.build = build],
                [NoOut EXCEPT !.diff = Style_sub_usize(style, rhs, build)])

\* style - other
DoSubStyle ==
    /\ pc = "idle"
    /\ \E style \in StyleSet, other \in StyleSet, build \in Builds :
           Done("sub_style",
                [NoInp EXCEPT !.style = style, !.rhs = other.indent_level,
                              !.name = other.newline, !.build = build],
                [NoOut EXCEPT !.diff = Style_sub_Style(style, other, build)])

\* value.stringify(buf, styles) into a growable sink
DoStringify ==
    /\ pc = "idle"
    /\ \E value \in Values, styles \in RenderTables :
           Done("stringify",
                [NoInp EXCEPT !.value = value, !.styles = styles],
                [NoOut EXCEPT !.rs = stringify(value, styles, NewSink(<<>>, "Vec", 0))])

\* value.stringify(buf, styles) into a fixed-size sink that already holds text
DoStringifySlice ==
    /\ pc = "idle"
    /\ \E value \in Values, styles \in SmallTables, prior \in Priors, room \in Rooms :
           Done("stringify",
                [NoInp EXCEPT !.value = value, !.styles = styles, !.prior = prior,
                              !.sink = "slice", !.room = room],
                [NoOut EXCEPT !.rs = stringify(value, styles, NewSink(prior, "slice", room))])

\* value.stringify_new(styles)
DoStringifyNew ==
    /\ pc = "idle"
    /\ \E value \in Values, styles \in SmallTables :
           Done("stringify_new",
                [NoInp EXCEPT !.value = value, !.styles = styles],
                [NoOut EXCEPT !.rs = stringify_new(value, styles)])

\* value.stringify_primitive(buf)
DoStringifyPrimitive ==
    /\ pc = "idle"
    /\ \E value \in Values, prior \in Priors, sink \in {"Vec", "slice"}, room \in Rooms :
           /\ sink = "Vec" => room = 0
           /\ Done("stringify_primitive",
                   [NoInp EXCEPT !.value = value, !.prior = prior,
                                 !.sink = sink, !.room = room],
                   [NoOut EXCEPT !.rs = stringify_primitive(value, NewSink(prior, sink, room))])

\* value.stringify_primitive_new()
DoStringifyPrimitiveNew ==
    /\ pc = "idle"
    /\ \E value \in Values :
           Done("stringify_primitive_new",
                [NoInp EXCEPT !.value = value],
                [NoOut EXCEPT !.rs = stringify_primitive_new(value)])

Next ==
    \/ DoGet
    \/ DoIndent2
    \/ DoIndent
    \/ DoSubUsize
    \/ DoSubStyle
    \/ DoStringify
    \/ DoStringifySlice
    \/ DoStringifyNew
    \/ DoStringifyPrimitive
    \/ DoStringifyPrimitiveNew

Spec == Init /\ [][Next]_vars

----------------------------------------------------------------------------
(* Vocabulary of the properties                                            *)

\* n copies of unit, one after the other
Repeat(unit, n) ==
    [i \in 1 .. n * Len(unit) |-> unit[((i - 1) % Len(unit)) + 1]]

\* what the indentation primitive is to append for a style
IndentText(style) ==
    (IF style.newline = "Add" THEN NL ELSE <<>>)
        \o Repeat(style.indent, style.indent_level)

IsPrefix(a, b) == Len(a) <= Len(b) /\ SubSeq(b, 1, Len(a)) = a

Containers == {"Vec", "BTreeMap", "HashMap"}
Maps == {"BTreeMap", "HashMap"}
RenderOps ==
    {"stringify", "stringify_new", "stringify_primitive", "stringify_primitive_new"}

IsEmptyContainer(v) == v.k \in Containers /\ v.items = <<>>
IsNonEmptyContainer(v) == v.k \in Containers /\ v.items # <<>>

EmptyText(v) ==
    CASE v.k = "Vec" -> VecEmpty
      [] v.k = "BTreeMap" -> BTreeMapEmpty
      [] v.k = "HashMap" -> HashMapEmpty

\* the sink of the recorded call takes n more bytes
Accepts(n) == inp.sink = "Vec" \/ n <= inp.room

BothDefault == [r \in {"start", "end"} |-> Style("Omit", 0, INDENT)]
OneTwo == Vec(<<Leaf(1), Leaf(2)>>)

----------------------------------------------------------------------------
(* C1                                                                      *)

C1_Case ==
    /\ op = "stringify"
    /\ inp.value = OneTwo
    /\ inp.sink = "Vec"
    /\ inp.prior = <<>>

\* C1 as stated: rendering [1, 2] with "start" and "end" both bound to
\* Style{Omit, 0, "    "} appends exactly "Vec [\n    1,\n    2,\n]".
C1_Original ==
    (C1_Case /\ inp.styles = BothDefault) =>
        out.rs.buf = <<"V", "e", "c", " ", "[", "\n", " ", " ", " ", " ", "1", ",",
                       "\n", " ", " ", " ", " ", "2", ",", "\n", "]">>

\* C1 amended: with "start" and "end" both bound to Style{Omit, 0, "    "}
\* the renderer returns Ok and appends exactly "Vec [    1,    2,]" (one
\* indentation unit before each item and no line break anywhere, the
\* policy being Omit); "Vec [\n    1,\n    2,\n]" is what it appends when
\* "end" is bound to Style{Add, 0, "    "} instead.
C1_Amended ==
    /\ (C1_Case /\ inp.styles = BothDefault) =>
           /\ out.rs.res = Ok
           /\ out.rs.buf = <<"V", "e", "c", " ", "[", " ", " ", " ", " ", "1", ",",
                             " ", " ", " ", " ", "2", ",", "]">>
    /\ (C1_Case /\ inp.styles = [BothDefault EXCEPT !["end"] = Style("Add", 0, INDENT)]) =>
           /\ out.rs.res = Ok
           /\ out.rs.buf = <<"V", "e", "c", " ", "[", "\n", " ", " ", " ", " ", "1", ",",
                             "\n", " ", " ", " ", " ", "2", ",", "\n", "]">>

C1_Witness ==
    /\ C1_Case
    /\ inp.styles = BothDefault
    /\ out.rs.res = Ok
    /\ Len(out.rs.buf) = 18

----------------------------------------------------------------------------
(* C2                                                                      *)

RECURSIVE IsVecNest(_)
\* a leaf, or a non-empty Vec of such values
IsVecNest(v) ==
    \/ v.k = "usize"
    \/ /\ v.k = "Vec"
       /\ v.items # <<>>
       /\ \A i \in 1 .. Len(v.items) : IsVecNest(v.items[i])

RECURSIVE LeafDepths(_, _)
RECURSIVE LeafDepthsOf(_, _, _)
\* the nesting depths of the leaves of v, in the order they are rendered
LeafDepths(v, d) ==
    IF v.k = "usize" THEN <<d>> ELSE LeafDepthsOf(v.items, 1, d + 1)

LeafDepthsOf(items, i, d) ==
    IF i > Len(items) THEN <<>>
    ELSE LeafDepths(items[i], d) \o LeafDepthsOf(items, i + 1, d)

IsDigit(c) == \E j \in 1 .. Len(Digits) : Digits[j] = c

\* the positions of text where a number starts
LeafStarts(text) ==
    {i \in 1 .. Len(text) : IsDigit(text[i]) /\ (i = 1 \/ ~IsDigit(text[i - 1]))}

\* how many of the characters right before position i are blanks
BlanksBefore(text, i) ==
    LET run == {n \in 0 .. i - 1 : \A j \in i - n .. i - 1 : text[j] = " "}
    IN  CHOOSE n \in run : \A m \in run : m <= n

\* the k-th smallest element of a set of numbers
Kth(S, k) == CHOOSE x \in S : Cardinality({y \in S : y <= x}) = k

C2_Case ==
    /\ op = "stringify"
    /\ inp.sink = "Vec"
    /\ IsVecNest(inp.value)
    /\ DOMAIN inp.styles = {"start", "end"}
    /\ \A r \in {"start", "end"} :
           inp.styles[r].indent_level = 0 /\ inp.styles[r].indent = INDENT

\* C2 as stated: with "start" and "end" at indent_level 0, the number of
\* indentation units emitted immediately before a leaf at nesting depth d
\* of non-empty sequences is d.
C2_Claim ==
    C2_Case =>
        LET depths == LeafDepths(inp.value, 0)
            starts == LeafStarts(out.rs.buf)
        IN  /\ Cardinality(starts) = Len(depths)
            /\ \A k \in 1 .. Len(depths) :
                   BlanksBefore(out.rs.buf, Kth(starts, k)) = depths[k] * Len(INDENT)

----------------------------------------------------------------------------
(* C3                                                                      *)

\* C3: styles.get(r) returns Ok(s) exactly when the table binds r to s, the
\* names compared by exact equality; otherwise it returns
\* StyleNotFound{name} with name = r, never a Style and never a panic.
C3_Get ==
    op = "get" =>
        /\ (out.got.res.tag = "Ok") <=> (inp.name \in DOMAIN inp.styles)
        /\ inp.name \in DOMAIN inp.styles => out.got.style = inp.styles[inp.name]
        /\ inp.name \notin DOMAIN inp.styles =>
               /\ out.got.res.tag = "StyleNotFound"
               /\ out.got.res.name = inp.name
               /\ out.got.style \notin StyleSet \cup {Style_default}

C3_Witness ==
    /\ op = "get"
    /\ inp.name = "Start"
    /\ "start" \in DOMAIN inp.styles
    /\ out.got.res = [tag |-> "StyleNotFound", name |-> "Start"]

----------------------------------------------------------------------------
(* C4                                                                      *)

\* C4: for every style table, rendering an empty Vec, BTreeMap or HashMap
\* into a sink that takes the bytes returns Ok, looks no role up and
\* appends exactly "Vec []", "BTreeMap {}" or "HashMap {}".
C4_Empty ==
    (op \in RenderOps /\ IsEmptyContainer(inp.value)
        /\ Accepts(Len(EmptyText(inp.value)))) =>
        /\ out.rs.res = Ok
        /\ out.rs.lookups = <<>>
        /\ out.rs.buf = inp.prior \o
               (CASE inp.value.k = "Vec" -> <<"V", "e", "c", " ", "[", "]">>
                  [] inp.value.k = "BTreeMap" ->
                       <<"B", "T", "r", "e", "e", "M", "a", "p", " ", "{", "}">>
                  [] inp.value.k = "HashMap" ->
                       <<"H", "a", "s", "h", "M", "a", "p", " ", "{", "}">>)

C4_Witness ==
    /\ op = "stringify"
    /\ inp.value = Vec(<<>>)
    /\ DOMAIN inp.styles = {"start", "end"}
    /\ inp.styles["start"] = Style("Add", MaxLevel, INDENT)
    /\ out.rs.res = Ok
    /\ out.rs.buf = VecEmpty

----------------------------------------------------------------------------
(* C5                                                                      *)

IsSimple(v) == v.k = "usize" \/ IsEmptyContainer(v)

\* a non-empty map whose keys and values are leaves or empty containers
IsSimpleMap(v) ==
    /\ v.k \in Maps
    /\ v.items # <<>>
    /\ \A i \in 1 .. Len(v.items) :
           IsSimple(v.items[i].items[1]) /\ IsSimple(v.items[i].items[2])

SimpleText(v) == IF v.k = "usize" THEN Decimal(v.n) ELSE EmptyText(v)

OpenText(v) ==
    IF v.k = "BTreeMap"
    THEN <<"B", "T", "r", "e", "e", "M", "a", "p", " ", "{">>
    ELSE <<"H", "a", "s", "h", "M", "a", "p", " ", "{">>

RECURSIVE EntriesText(_, _)
\* key " : " value "," for the first n entries, in their order
EntriesText(entries, n) ==
    IF n = 0 THEN <<>>
    ELSE EntriesText(entries, n - 1)
             \o SimpleText(entries[n].items[1]) \o <<" ", ":", " ">>
             \o SimpleText(entries[n].items[2]) \o <<",">>

\* the table a map hands to a child: one role, a line break, one level
\* deeper than the map's start style, the default unit
ChildTable(role, start) ==
    [r \in {role} |->
        [newline |-> "Add", indent_level |-> start.indent_level + 1,
         indent |-> <<" ", " ", " ", " ">>]]

C5_Case ==
    /\ op = "stringify"
    /\ inp.sink = "Vec"
    /\ inp.value.k = "BTreeMap"
    /\ IsSimpleMap(inp.value)
    /\ {"start", "end"} \subseteq DOMAIN inp.styles

\* C5: a non-empty BTreeMap rendered with "start" and "end" bound appends
\* the indentation of the start style, "BTreeMap {", then per entry in
\* ascending key order the key (rendered with a table holding only "key",
\* bound to Style(Add, start.indent_level + 1, default unit)), " : ", the
\* value (rendered with a table holding only "value", bound to the same
\* style) and a comma, then a line break, end.indent_level + 1 default
\* units and "}".
C5_BTreeMap ==
    C5_Case =>
        LET entries == inp.value.items
            start == inp.styles["start"]
            end == inp.styles["end"]
            calls == out.rs.calls
        IN  /\ out.rs.res = Ok
            /\ out.rs.buf =
                   inp.prior \o IndentText(start) \o OpenText(inp.value)
                       \o EntriesText(entries, Len(entries))
                       \o <<"\n">> \o Repeat(<<" ", " ", " ", " ">>, end.indent_level + 1)
                       \o <<"}">>
            /\ Len(calls) = 1 + 2 * Len(entries)
            /\ \A i \in 1 .. Len(entries) :
                   /\ calls[2 * i] =
                          [value |-> entries[i].items[1], styles |-> ChildTable("key", start)]
                   /\ calls[2 * i + 1] =
                          [value |-> entries[i].items[2], styles |-> ChildTable("value", start)]
            /\ \A i, j \in 1 .. Len(entries) :
                   (i < j /\ calls[2 * i].value.k = "usize") =>
                       calls[2 * i].value.n < calls[2 * j].value.n

C5_Witness ==
    /\ C5_Case
    /\ Len(inp.value.items) = 2
    /\ inp.styles["start"].indent_level = 1
    /\ inp.styles["end"].indent_level = 0
    /\ out.rs.res = Ok
    /\ Len(out.rs.calls) = 5

----------------------------------------------------------------------------
(* C6                                                                      *)

\* C6: indent(sink, s) appends one line break iff s.newline is Add, then
\* s.indent_level copies of s.indent, and nothing else: the bytes depend on
\* s alone and the sink's earlier content stays.  (A fixed-size sink keeps
\* the part of these bytes that fits and the call fails.)
C6_Indent ==
    /\ op = "indent" => out.buffer = inp.prior \o IndentText(inp.style)
    /\ op = "indent2" =>
           LET text == IndentText(inp.style)
           IN  IF Accepts(Len(text))
               THEN out.rs.res = Ok /\ out.rs.buf = inp.prior \o text
               ELSE /\ out.rs.res = IoError
                    /\ out.rs.buf = inp.prior \o SubSeq(text, 1, inp.room)

C6_Witness ==
    /\ op = "indent2"
    /\ inp.style = Style("Add", MaxLevel, TabUnit)
    /\ inp.prior = <<"#">>
    /\ out.rs.res = Ok
    /\ Len(out.rs.buf) = 2 + MaxLevel

----------------------------------------------------------------------------
(* C7                                                                      *)

\* C7: a decrement below zero (s - n with n > s.indent_level, by a number
\* or by a Style) never yields a wrapped-around indent_level: it saturates
\* at zero or signals a defect, whatever the build; a decrement that stays
\* at or above zero yields indent_level = s.indent_level - n with s's
\* newline policy and unit.
C7_Claim ==
    op \in {"sub_usize", "sub_style"} =>
        IF inp.rhs > inp.style.indent_level
        THEN out.diff.panicked \/ out.diff.style.indent_level = 0
        ELSE /\ ~out.diff.panicked
             /\ out.diff.style =
                    [inp.style EXCEPT !.indent_level = inp.style.indent_level - inp.rhs]

----------------------------------------------------------------------------
(* C8                                                                      *)

\* what the same call appends to a growable sink
Unbounded ==
    IF op \in {"stringify", "stringify_new"}
    THEN stringify(inp.value, inp.styles, NewSink(inp.prior, "Vec", 0))
    ELSE stringify(inp.value, EmptyStyles, NewSink(inp.prior, "Vec", 0))

\* C8: when a render call fails at any depth, the caller gets the error as
\* it was raised (same variant, same role name), nothing is appended after
\* the failure and what was appended before it stays after the sink's
\* earlier content; a non-empty map whose table binds "start" and not "end"
\* returns StyleNotFound{"end"} with the opening token and every entry
\* written.
C8_Errors ==
    /\ (op \in RenderOps /\ out.rs.res # Ok) =>
           /\ Len(out.rs.raised) = 1
           /\ out.rs.res = out.rs.raised[1]
           /\ out.rs.buf = out.rs.failbuf
           /\ IsPrefix(inp.prior, out.rs.buf)
           /\ IsPrefix(out.rs.buf, Unbounded.buf)
           /\ out.rs.res.tag = "IoError" =>
                  /\ inp.sink = "slice"
                  /\ Len(out.rs.buf) = Len(inp.prior) + inp.room
                  /\ Len(Unbounded.buf) > Len(out.rs.buf)
           /\ out.rs.res.tag = "StyleNotFound" =>
                  out.rs.res.name = out.rs.lookups[Len(out.rs.lookups)]
    /\ (op \in RenderOps /\ out.rs.res = Ok) => out.rs.raised = <<>>
    /\ (op = "stringify" /\ inp.sink = "Vec" /\ IsSimpleMap(inp.value)
           /\ "start" \in DOMAIN inp.styles /\ "end" \notin DOMAIN inp.styles) =>
           /\ out.rs.res = [tag |-> "StyleNotFound", name |-> "end"]
           /\ out.rs.buf =
                  inp.prior \o IndentText(inp.styles["start"]) \o OpenText(inp.value)
                      \o EntriesText(inp.value.items, Len(inp.value.items))

\* an error raised by a nested Vec reaches the caller of the outer map
C8_Witness ==
    /\ op = "stringify"
    /\ inp.value.k = "HashMap"
    /\ {"start", "end"} \subseteq DOMAIN inp.styles
    /\ out.rs.res = [tag |-> "StyleNotFound", name |-> "end"]
    /\ Len(out.rs.calls) >= 3
    /\ Len(out.rs.buf) > Len(inp.prior)

----------------------------------------------------------------------------
(* C9                                                                      *)

\* C9: the primitive entry points render with the empty table: on a
\* non-empty Vec, BTreeMap or HashMap they return StyleNotFound naming a
\* role the container requires ("end" for a Vec, "start" for a map) and
\* append nothing; on a value that resolves no role (a leaf, an empty
\* container) they look nothing up and return Ok when the sink takes the
\* bytes.
C9_Primitive ==
    op \in {"stringify_primitive", "stringify_primitive_new"} =>
        /\ IsNonEmptyContainer(inp.value) =>
               /\ out.rs.res.tag = "StyleNotFound"
               /\ out.rs.res.name = (IF inp.value.k = "Vec" THEN "end" ELSE "start")
               /\ out.rs.buf = inp.prior
        /\ IsSimple(inp.value) =>
               /\ out.rs.lookups = <<>>
               /\ out.rs.res.tag # "StyleNotFound"
               /\ Accepts(Len(SimpleText(inp.value))) =>
                      /\ out.rs.res = Ok
                      /\ out.rs.buf = inp.prior \o SimpleText(inp.value)
        /\ op = "stringify_primitive_new" => inp.sink = "Vec" /\ inp.prior = <<>>

C9_Witness ==
    /\ op = "stringify_primitive_new"
    /\ inp.value.k = "HashMap"
    /\ Len(inp.value.items) = 2
    /\ out.rs.res = [tag |-> "StyleNotFound", name |-> "start"]
    /\ out.rs.buf = <<>>

----------------------------------------------------------------------------
(* C10                                                                     *)

\* the keys and values of a map in the order they are rendered
Children(v) ==
    [i \in 1 .. 2 * Len(v.items) |-> v.items[(i + 1) \div 2].items[((i - 1) % 2) + 1]]

\* a non-empty map with a key or value that is a non-empty container
HasNested(v) ==
    /\ v.k \in Maps
    /\ \E i \in 1 .. 2 * Len(v.items) : IsNonEmptyContainer(Children(v)[i])

\* the role the first nested non-empty container fails to find
FirstNestedRole(v) ==
    LET c == Children(v)
        first == CHOOSE i \in 1 .. Len(c) :
                     /\ IsNonEmptyContainer(c[i])
                     /\ \A j \in 1 .. i - 1 : ~IsNonEmptyContainer(c[j])
    IN  IF c[first].k = "Vec" THEN "end" ELSE "start"

Occurs(token, text) ==
    \E i \in 1 .. Len(text) : SubSeq(text, i, i + Len(token) - 1) = token

C10_Case ==
    /\ op = "stringify"
    /\ inp.sink = "Vec"
    /\ HasNested(inp.value)

\* C10 as stated: for every style table, rendering a non-empty map with a
\* key or value that is a non-empty container returns StyleNotFound{"end"}
\* (nested Vec) or StyleNotFound{"start"} (nested map), after the outer
\* opening token has been appended.
C10_Original ==
    C10_Case =>
        /\ out.rs.res = [tag |-> "StyleNotFound", name |-> FirstNestedRole(inp.value)]
        /\ Occurs(OpenText(inp.value), out.rs.buf)

\* C10 amended: such a call never returns Ok; when the table binds "start"
\* it returns StyleNotFound{"end"} or StyleNotFound{"start"}, as the first
\* nested non-empty container in iteration order is a Vec or a map, after
\* the start indentation and the opening token have been appended; when the
\* table does not bind "start" it returns StyleNotFound{"start"} with
\* nothing appended.  A map whose nested containers are all empty renders.
C10_Amended ==
    /\ (op \in RenderOps /\ HasNested(inp.value)) => out.rs.res # Ok
    /\ (C10_Case /\ "start" \in DOMAIN inp.styles) =>
           /\ out.rs.res = [tag |-> "StyleNotFound", name |-> FirstNestedRole(inp.value)]
           /\ IsPrefix(inp.prior \o IndentText(inp.styles["start"]) \o OpenText(inp.value),
                       out.rs.buf)
    /\ (C10_Case /\ "start" \notin DOMAIN inp.styles) =>
           /\ out.rs.res = [tag |-> "StyleNotFound", name |-> "start"]
           /\ out.rs.buf = inp.prior
           /\ out.rs.lookups = <<"start">>
    /\ (op = "stringify" /\ inp.sink = "Vec" /\ IsSimpleMap(inp.value)
           /\ {"start", "end"} \subseteq DOMAIN inp.styles) => out.rs.res = Ok

C10_Witness ==
    /\ C10_Case
    /\ inp.value.k = "BTreeMap"
    /\ DOMAIN inp.styles = Roles
    /\ inp.value.items[1].items[1].k = "BTreeMap"
    /\ out.rs.res = [tag |-> "StyleNotFound", name |-> "start"]
    /\ Occurs(OpenText(inp.value), out.rs.buf)

====
